---- MODULE Spec2Model ----
(***************************************************************************)
(* Model of rust_text_editor: the Document type (src/src/document.rs) and  *)
(* the TextEditorApp session controller (src/src/app.rs).                  *)
(*                                                                         *)
(* Texts are sequences of characters.  Option<T> is a sequence of length   *)
(* 0 (None) or 1 (Some).  Indices into `docs` are 0-based as in the Rust   *)
(* source, so the active document is docs[active_doc + 1].                 *)
(*                                                                         *)
(* Presentation-only fields of TextEditorApp (font_size, text_color) are   *)
(* not part of the state.                                                  *)
(***************************************************************************)
EXTENDS Integers, Sequences, FiniteSets, TLC

VARIABLES
    docs,               \* TextEditorApp.docs : Vec<Document>
    active_doc,         \* TextEditorApp.active_doc (0-based)
    next_doc_id,        \* TextEditorApp.next_doc_id
    find_text,          \* TextEditorApp.find_text
    replace_text,       \* TextEditorApp.replace_text
    last_replace_count, \* TextEditorApp.last_replace_count : Option<usize>
    autosave_interval,  \* TextEditorApp.autosave_interval (seconds)
    last_autosave,      \* TextEditorApp.last_autosave (an Instant, seconds)
    now,                \* the monotonic clock read by Instant::now()
    fs,                 \* the file system: file name -> Option<contents>
    ghost,              \* history variable, one record per entry of docs
    last,               \* history variable: the operation of the last step
    io                  \* history variable: the fs::write calls of the last step

vars == <<docs, active_doc, next_doc_id, find_text, replace_text,
          last_replace_count, autosave_interval, last_autosave, now,
          fs, ghost, last, io>>

appvars == <<active_doc, next_doc_id, find_text, replace_text,
             last_replace_count, autosave_interval, last_autosave, now>>

----------------------------------------------------------------------------
(* Bounds of the model *)

\* cap on the depth of a document's undo stack
MaxHist == 2
\* cap on the depth of a document's undo stack in the session specification
MaxAppHist == 1
\* cap on the number of open documents
MaxDocs == 2
\* cap on the ids given to documents
MaxId == 2
\* the clock advances by 0 or TickSecs seconds between two frames, MaxTicks times at most
TickSecs == 30
MaxTicks == 1
\* caps on the number of open documents and on the ids in the tabs specification
MaxTabs == 3
MaxTabId == 4
\* the clock advances MaxSaveTicks times at most in the autosave specification
MaxSaveTicks == 4
\* cap on the length of the needles and replacements in SpecReplace
MaxPatLen == 2
\* cap on the length of the texts replace_all is applied to in SpecReplace
MaxInLen == 4

----------------------------------------------------------------------------
(* Values *)

None == <<>>
Some(x) == <<x>>

Chars == {"a", "b"}

\* all texts over Chars of length at most n
StrUpTo(n) == UNION {[1..k -> Chars] : k \in 0..n}

\* the texts the front-end passes to set_text in the Document specification
DocTexts == {<<>>, <<"a", "a">>, <<"a", "b">>}
\* the needles and replacements passed to replace_all in the Document specification
Needles == {<<>>, <<"a">>}
Replacements == {<<"a">>, <<"b">>}

\* paths the file dialogs can return: <<directory, file name>>
Paths == {<<"d1", "f">>, <<"d2", "f">>}

\* inputs of the front-end in the session specification: the path picked in
\* a dialog, the text typed in the editor, the texts typed in the search
\* fields, the value dragged for the autosave interval
AppPaths == {<<"d1", "f">>}
AppTexts == {<<"a">>}
AppSearches == {<< <<"a">>, <<>> >>}
\* the text typed in the editor in the autosave specification
SaveTexts == {<<"b">>}
IntervalChoices == {10, 60}

\* name of the scratch file of the untitled document `id` (app.rs:73)
autosave_name(id) == <<"cwd", "autosave", id>>

\* the files whose contents the model keeps: the program reads no other
\* file; the writes to the scratch files are kept in `io`
Files == Paths

\* outcomes of one fs::write call: success, failure before the file is
\* touched (open/create fails), failure after it was truncated
Faults == {"ok", "open_err", "write_err"}
\* the outcomes drawn in the session specification
AppFaults == {"ok", "open_err"}

----------------------------------------------------------------------------
(* std::fs as used by the program *)

\* fs::write(path, contents) (document.rs:49, app.rs:75): the file system after the call
fs_write(f, path, contents, fault) ==
    CASE fault = "ok"        -> [f EXCEPT ![path] = Some(contents)]
      [] fault = "open_err"  -> f
      [] fault = "write_err" -> [f EXCEPT ![path] = Some(<<>>)]

\* record of one fs::write call, kept in `io`
write_rec(id, path, contents, fault) ==
    [doc |-> id, target |-> path, content |-> contents, ok |-> (fault = "ok")]

\* Path::file_name (document.rs:31): the last component of the path
file_name(path) == Some(path[2])

----------------------------------------------------------------------------
(* str::matches and str::replace as used by replace_all *)

RECURSIVE match_indices(_, _, _)
\* start positions (1-based) of the non-overlapping matches of needle in
\* text found by a left-to-right scan starting at position i
match_indices(text, needle, i) ==
    IF i + Len(needle) - 1 > Len(text) THEN <<>>
    ELSE IF SubSeq(text, i, i + Len(needle) - 1) = needle
         THEN <<i>> \o match_indices(text, needle, i + Len(needle))
         ELSE match_indices(text, needle, i + 1)

\* text.matches(needle).count() (document.rs:92)
matches_count(text, needle) == Len(match_indices(text, needle, 1))

RECURSIVE replace_from(_, _, _, _, _, _)
\* str::replace's loop: copy text[last_end..start], push `to`, continue after the match
replace_from(text, m, from, to, k, last_end) ==
    IF k > Len(m) THEN SubSeq(text, last_end, Len(text))
    ELSE SubSeq(text, last_end, m[k] - 1) \o to
         \o replace_from(text, m, from, to, k + 1, m[k] + Len(from))

\* replace that substitutes the first match only (replacen with count 1)
str_replace_first(text, from, to) ==
    replace_from(text, SubSeq(match_indices(text, from, 1), 1, 1), from, to, 1, 1)

\* text.replace(needle, replacement) (document.rs:94)
str_replace(text, from, to) ==
    replace_from(text, match_indices(text, from, 1), from, to, 1, 1)

----------------------------------------------------------------------------
(* Document (document.rs) *)

\* Document::new_untitled
new_untitled(id) ==
    [id |-> id, path |-> None,
     title |-> [kind |-> "Untitled", num |-> id, name |-> ""],
     text |-> <<>>, undo_stack |-> <<>>, redo_stack |-> <<>>, dirty |-> FALSE]

\* Document::from_file, the Ok case (fs::read_to_string succeeded with `text`)
from_file(id, path, text) ==
    [id |-> id, path |-> Some(path),
     title |-> [kind |-> "File", num |-> 0,
                name |-> IF file_name(path) = None THEN "Document"
                         ELSE file_name(path)[1]],
     text |-> text, undo_stack |-> <<>>, redo_stack |-> <<>>, dirty |-> FALSE]

\* save with the flag cleared outside the `if let Some(path)` block
save_clear_always(doc, fault) ==
    IF doc.path # None
    THEN IF fault = "ok" THEN [doc EXCEPT !.dirty = FALSE] ELSE doc
    ELSE [doc EXCEPT !.dirty = FALSE]

\* Document::save: the document after the call
save(doc, fault) ==
    IF doc.path # None
    THEN IF fault = "ok" THEN [doc EXCEPT !.dirty = FALSE] ELSE doc
    ELSE doc

\* Document::save: the Result it returns (TRUE for Ok)
save_ok(doc, fault) == doc.path # None => fault = "ok"

\* Document::save: the file system after the call
save_fs(doc, f, fault) ==
    IF doc.path # None THEN fs_write(f, doc.path[1], doc.text, fault) ELSE f

\* Document::save: the fs::write calls it makes
save_io(doc, fault) ==
    IF doc.path # None
    THEN <<write_rec(doc.id, doc.path[1], doc.text, fault)>>
    ELSE <<>>

\* Document::save_as: the assignment of line 56; the rest is save
set_path(doc, path) == [doc EXCEPT !.path = Some(path)]

\* save_as without `self.path = Some(path)`
save_as_keep_path(doc, path, fault) == save(doc, fault)

\* Document::save_as: the document after the call
save_as(doc, path, fault) == save(set_path(doc, path), fault)

\* set_text without `self.redo_stack.clear()`
set_text_keep_redo(doc, new_text) ==
    IF new_text # doc.text
    THEN [doc EXCEPT !.undo_stack = Append(@, doc.text),
                     !.text = new_text,
                     !.dirty = TRUE]
    ELSE doc

\* set_text without the `new_text != self.text` test
set_text_always(doc, new_text) ==
    [doc EXCEPT !.undo_stack = Append(@, doc.text),
                !.redo_stack = <<>>,
                !.text = new_text,
                !.dirty = TRUE]

\* Document::set_text
set_text(doc, new_text) ==
    IF new_text # doc.text
    THEN [doc EXCEPT !.undo_stack = Append(@, doc.text),
                     !.redo_stack = <<>>,
                     !.text = new_text,
                     !.dirty = TRUE]
    ELSE doc

\* undo without `self.redo_stack.push(self.text.clone())`
undo_no_push(doc) ==
    IF doc.undo_stack # <<>>
    THEN [doc EXCEPT !.undo_stack = SubSeq(@, 1, Len(@) - 1),
                     !.text = doc.undo_stack[Len(doc.undo_stack)],
                     !.dirty = TRUE]
    ELSE doc

\* undo without `self.dirty = true`
undo_no_dirty(doc) ==
    IF doc.undo_stack # <<>>
    THEN [doc EXCEPT !.undo_stack = SubSeq(@, 1, Len(@) - 1),
                     !.redo_stack = Append(@, doc.text),
                     !.text = doc.undo_stack[Len(doc.undo_stack)]]
    ELSE doc

\* Document::undo
undo(doc) ==
    IF doc.undo_stack # <<>>
    THEN [doc EXCEPT !.undo_stack = SubSeq(@, 1, Len(@) - 1),
                     !.redo_stack = Append(@, doc.text),
                     !.text = doc.undo_stack[Len(doc.undo_stack)],
                     !.dirty = TRUE]
    ELSE doc

\* redo that pushes the popped text instead of the current one
redo_push_next(doc) ==
    IF doc.redo_stack # <<>>
    THEN [doc EXCEPT !.redo_stack = SubSeq(@, 1, Len(@) - 1),
                     !.undo_stack = Append(@, doc.redo_stack[Len(doc.redo_stack)]),
                     !.text = doc.redo_stack[Len(doc.redo_stack)],
                     !.dirty = TRUE]
    ELSE doc

\* Document::redo
redo(doc) ==
    IF doc.redo_stack # <<>>
    THEN [doc EXCEPT !.redo_stack = SubSeq(@, 1, Len(@) - 1),
                     !.undo_stack = Append(@, doc.text),
                     !.text = doc.redo_stack[Len(doc.redo_stack)],
                     !.dirty = TRUE]
    ELSE doc

\* Document::replace_all: the value it returns
replace_all_count(doc, needle, replacement) ==
    IF needle = <<>> THEN 0 ELSE matches_count(doc.text, needle)

\* replace_all that assigns the text itself instead of calling set_text
replace_all_direct(doc, needle, replacement) ==
    IF needle = <<>> THEN doc
    ELSE IF matches_count(doc.text, needle) > 0
         THEN [doc EXCEPT !.text = str_replace(doc.text, needle, replacement),
                          !.dirty = TRUE]
         ELSE doc

\* Document::replace_all: the document after the call
replace_all(doc, needle, replacement) ==
    IF needle = <<>> THEN doc
    ELSE IF matches_count(doc.text, needle) > 0
         THEN set_text(doc, str_replace(doc.text, needle, replacement))
         ELSE doc

----------------------------------------------------------------------------
(* History variables.  ghost[i] belongs to docs[i]:                        *)
(*   hist  - the texts of the current line of edits, oldest first          *)
(*   cur   - position in hist of the text that is in effect                *)
(*   saved - the text of the last successful save to the document's path   *)
(*           (for a loaded document, initially the text read); None if     *)
(*           the document was never saved                                  *)

ghost_new(text, saved) == [hist |-> <<text>>, cur |-> 1, saved |-> saved]

\* an edit request for new_text: a new line of history starts at cur
ghost_edit(g, new_text) ==
    IF new_text # g.hist[g.cur]
    THEN [g EXCEPT !.hist = Append(SubSeq(g.hist, 1, g.cur), new_text),
                   !.cur = g.cur + 1]
    ELSE g

ghost_undo(g) == IF g.cur > 1 THEN [g EXCEPT !.cur = g.cur - 1] ELSE g

ghost_redo(g) == IF g.cur < Len(g.hist) THEN [g EXCEPT !.cur = g.cur + 1] ELSE g

ghost_saved(g, text) == [g EXCEPT !.saved = Some(text)]

\* the operation of the last step: its name, the position in docs (1-based)
\* of the document it acted on (0 when none), its text arguments, whether it
\* changed that document's text, the count and the Result it returned, and
\* whether the autosave sweep ran in the step
op_rec(name, idx, arg, changed, count, ok, swept) ==
    [op |-> name, idx |-> idx, arg |-> arg, changed |-> changed,
     count |-> count, ok |-> ok, swept |-> swept]

----------------------------------------------------------------------------
(* Specification of one Document driven through its public methods (SpecDoc) *)

\* the file system at start: the first path holds a text, no other file exists
InitFs == [p \in Files |-> IF p = <<"d1", "f">> THEN Some(<<"a">>) ELSE None]

InitApp ==
    /\ active_doc = 0
    /\ next_doc_id = 2
    /\ find_text = <<>>
    /\ replace_text = <<>>
    /\ last_replace_count = None
    /\ autosave_interval = 60
    /\ now = 0
    /\ last_autosave = 0

\* the document is created by new_untitled(1) or by from_file(1, path)
InitDoc ==
    /\ InitApp
    /\ fs = InitFs
    /\ \/ /\ docs = <<new_untitled(1)>>
          /\ ghost = <<ghost_new(<<>>, None)>>
       \/ \E p \in Paths :
            /\ fs[p] # None
            /\ docs = <<from_file(1, p, fs[p][1])>>
            /\ ghost = <<ghost_new(fs[p][1], Some(fs[p][1]))>>
    /\ last = op_rec("init", 0, <<>>, FALSE, 0, TRUE, FALSE)
    /\ io = <<>>

\* the bound on a document the model keeps
within_bounds(doc) == Len(doc.undo_stack) <= MaxHist

DocSetText(t) ==
    /\ within_bounds(set_text(docs[1], t))
    /\ docs' = <<set_text(docs[1], t)>>
    /\ ghost' = <<ghost_edit(ghost[1], t)>>
    /\ last' = op_rec("set_text", 1, <<t>>, t # docs[1].text, 0, TRUE, FALSE)
    /\ io' = <<>>
    /\ UNCHANGED <<appvars, fs>>

DocUndo ==
    /\ docs' = <<undo(docs[1])>>
    /\ ghost' = <<ghost_undo(ghost[1])>>
    /\ last' = op_rec("undo", 1, <<>>, undo(docs[1]).text # docs[1].text, 0, TRUE,
                      FALSE)
    /\ io' = <<>>
    /\ UNCHANGED <<appvars, fs>>

DocRedo ==
    /\ docs' = <<redo(docs[1])>>
    /\ ghost' = <<ghost_redo(ghost[1])>>
    /\ last' = op_rec("redo", 1, <<>>, redo(docs[1]).text # docs[1].text, 0, TRUE,
                      FALSE)
    /\ io' = <<>>
    /\ UNCHANGED <<appvars, fs>>

DocReplaceAll(needle, replacement) ==
    /\ within_bounds(replace_all(docs[1], needle, replacement))
    /\ docs' = <<replace_all(docs[1], needle, replacement)>>
    /\ ghost' = <<ghost_edit(ghost[1], replace_all(docs[1], needle, replacement).text)>>
    /\ last' = op_rec("replace_all", 1, <<needle, replacement>>,
                      replace_all(docs[1], needle, replacement).text # docs[1].text,
                      replace_all_count(docs[1], needle, replacement), TRUE, FALSE)
    /\ io' = <<>>
    /\ UNCHANGED <<appvars, fs>>

DocSave(fault) ==
    /\ docs' = <<save(docs[1], fault)>>
    /\ fs' = save_fs(docs[1], fs, fault)
    /\ io' = save_io(docs[1], fault)
    /\ ghost' = <<IF docs[1].path # None /\ fault = "ok"
                  THEN ghost_saved(ghost[1], docs[1].text) ELSE ghost[1]>>
    /\ last' = op_rec("save", 1, <<>>, FALSE, 0, save_ok(docs[1], fault), FALSE)
    /\ UNCHANGED appvars

DocSaveAs(path, fault) ==
    /\ docs' = <<save_as(docs[1], path, fault)>>
    /\ fs' = save_fs(set_path(docs[1], path), fs, fault)
    /\ io' = save_io(set_path(docs[1], path), fault)
    /\ ghost' = <<IF fault = "ok"
                  THEN ghost_saved(ghost[1], docs[1].text) ELSE ghost[1]>>
    /\ last' = op_rec("save_as", 1, <<path>>, FALSE, 0,
                      save_ok(set_path(docs[1], path), fault), FALSE)
    /\ UNCHANGED appvars

NextDoc ==
    \/ \E t \in DocTexts : DocSetText(t)
    \/ DocUndo
    \/ DocRedo
    \/ \E n \in Needles, r \in Replacements : DocReplaceAll(n, r)
    \/ \E f \in Faults : DocSave(f)
    \/ \E p \in Paths, f \in Faults : DocSaveAs(p, f)

SpecDoc == InitDoc /\ [][NextDoc]_vars

----------------------------------------------------------------------------
(* Specification of replace_all on arbitrary texts (SpecReplace): the      *)
(* document is loaded from a file holding any text of length <= MaxInLen   *)

InitReplace ==
    /\ InitApp
    /\ \E t \in StrUpTo(MaxInLen) :
         /\ fs = [p \in Files |-> IF p = <<"d1", "f">> THEN Some(t) ELSE None]
         /\ docs = <<from_file(1, <<"d1", "f">>, t)>>
         /\ ghost = <<ghost_new(t, Some(t))>>
    /\ last = op_rec("init", 0, <<>>, FALSE, 0, TRUE, FALSE)
    /\ io = <<>>

\* replace_all is applied once to the loaded text
ReplaceStep(needle, replacement) ==
    /\ last.op = "init"
    /\ DocReplaceAll(needle, replacement)

NextReplace ==
    \E n \in StrUpTo(MaxPatLen), r \in StrUpTo(MaxPatLen) : ReplaceStep(n, r)

SpecReplace == InitReplace /\ [][NextReplace]_vars

----------------------------------------------------------------------------
(* TextEditorApp (app.rs).  A handler is an operator from the session      *)
(* state before it to the session state after it; the session state is the *)
(* record St of the fields of TextEditorApp, the file system and the       *)
(* fs::write calls made so far in the frame.                               *)

St ==
    [docs |-> docs, active_doc |-> active_doc, next_doc_id |-> next_doc_id,
     find_text |-> find_text, replace_text |-> replace_text,
     last_replace_count |-> last_replace_count,
     autosave_interval |-> autosave_interval, last_autosave |-> last_autosave,
     fs |-> fs, io |-> <<>>]

\* TextEditorApp::current_doc / current_doc_mut
current_doc(s) == s.docs[s.active_doc + 1]

\* Vec::remove(idx), idx 0-based
vec_remove(v, idx) == SubSeq(v, 1, idx) \o SubSeq(v, idx + 2, Len(v))

\* "New" without `self.next_doc_id += 1`
file_new_same_id(s) ==
    [s EXCEPT !.docs = Append(s.docs, new_untitled(s.next_doc_id)),
              !.active_doc = Len(s.docs) + 1 - 1]

\* file_menu, "New" clicked
file_new(s) ==
    [s EXCEPT !.docs = Append(s.docs, new_untitled(s.next_doc_id)),
              !.active_doc = Len(s.docs) + 1 - 1,
              !.next_doc_id = s.next_doc_id + 1]

\* file_menu, "Open..." clicked: `picked` is the Option the dialog returns,
\* read_ok tells whether fs::read_to_string succeeds on an existing file
file_open(s, picked, read_ok) ==
    IF picked # None
    THEN IF s.fs[picked[1]] # None /\ read_ok
         THEN [s EXCEPT !.docs = Append(s.docs,
                            from_file(s.next_doc_id, picked[1], s.fs[picked[1]][1])),
                        !.active_doc = Len(s.docs) + 1 - 1,
                        !.next_doc_id = s.next_doc_id + 1]
         ELSE s
    ELSE s

\* `doc.save()` on the active document
do_save(s, fault) ==
    [s EXCEPT !.docs[s.active_doc + 1] = save(current_doc(s), fault),
              !.fs = save_fs(current_doc(s), s.fs, fault),
              !.io = s.io \o save_io(current_doc(s), fault)]

\* save_as that keeps the previous path when the write fails
do_save_as_rollback(s, path, fault) ==
    [s EXCEPT !.docs[s.active_doc + 1] =
                  IF fault = "ok" THEN save_as(current_doc(s), path, fault)
                  ELSE current_doc(s),
              !.fs = save_fs(set_path(current_doc(s), path), s.fs, fault),
              !.io = s.io \o save_io(set_path(current_doc(s), path), fault)]

\* `doc.save_as(path)` on the active document
do_save_as(s, path, fault) ==
    [s EXCEPT !.docs[s.active_doc + 1] = save_as(current_doc(s), path, fault),
              !.fs = save_fs(set_path(current_doc(s), path), s.fs, fault),
              !.io = s.io \o save_io(set_path(current_doc(s), path), fault)]

\* file_menu, "Save" clicked: the dialog is shown for a document without path
file_save(s, picked, fault) ==
    IF current_doc(s).path # None THEN do_save(s, fault)
    ELSE IF picked # None THEN do_save_as(s, picked[1], fault)
    ELSE s

\* file_menu, "Save as..." clicked
file_save_as(s, picked, fault) ==
    IF picked # None THEN do_save_as(s, picked[1], fault) ELSE s

\* edit_menu, "Undo" clicked
edit_undo(s) == [s EXCEPT !.docs[s.active_doc + 1] = undo(current_doc(s))]

\* edit_menu, "Redo" clicked
edit_redo(s) == [s EXCEPT !.docs[s.active_doc + 1] = redo(current_doc(s))]

\* search_menu: the two fields hold needle and replacement, "Replace all" clicked
search_replace_all(s, needle, replacement) ==
    [s EXCEPT !.find_text = needle,
              !.replace_text = replacement,
              !.docs[s.active_doc + 1] = replace_all(current_doc(s), needle, replacement),
              !.last_replace_count =
                  Some(replace_all_count(current_doc(s), needle, replacement))]

\* view_menu: the autosave interval was dragged to secs
view_interval(s, secs) == [s EXCEPT !.autosave_interval = secs]

\* tabs_bar without the `len > 1` test of the close button
tabs_bar_close_last(s, new_active, close_clicked) ==
    LET s1 == IF new_active # None THEN [s EXCEPT !.active_doc = new_active[1]] ELSE s
    IN  IF close_clicked # None
        THEN LET d == vec_remove(s1.docs, close_clicked[1])
             IN  [s1 EXCEPT !.docs = d,
                            !.active_doc = IF s1.active_doc >= Len(d)
                                           THEN Len(d) - 1 ELSE s1.active_doc]
        ELSE s1

\* tabs_bar without the correction of active_doc after the removal
tabs_bar_no_clamp(s, new_active, close_clicked) ==
    LET len == Len(s.docs)
        to_close == IF close_clicked # None /\ len > 1 THEN close_clicked ELSE None
        s1 == IF new_active # None THEN [s EXCEPT !.active_doc = new_active[1]] ELSE s
    IN  IF to_close # None
        THEN [s1 EXCEPT !.docs = vec_remove(s1.docs, to_close[1])]
        ELSE s1

\* tabs_bar: new_active is the tab whose label was clicked, close_clicked
\* the tab whose close button was clicked (Options of 0-based positions)
tabs_bar(s, new_active, close_clicked) ==
    LET len == Len(s.docs)
        to_close == IF close_clicked # None /\ len > 1 THEN close_clicked ELSE None
        s1 == IF new_active # None THEN [s EXCEPT !.active_doc = new_active[1]] ELSE s
    IN  IF to_close # None
        THEN LET d == vec_remove(s1.docs, to_close[1])
             IN  [s1 EXCEPT !.docs = d,
                            !.active_doc = IF s1.active_doc >= Len(d)
                                           THEN Len(d) - 1 ELSE s1.active_doc]
        ELSE s1

\* editor_area: the text widget reports a change to `text`
editor_area(s, text) ==
    [s EXCEPT !.docs[s.active_doc + 1] = set_text(current_doc(s), text)]

\* the loop body with the dirty flag cleared after the scratch write too
autosave_doc_clear(doc, fault) ==
    IF ~doc.dirty THEN doc
    ELSE IF doc.path # None THEN save(doc, fault)
    ELSE [doc EXCEPT !.dirty = FALSE]

\* the loop body with a save that never clears the dirty flag
autosave_doc_keep_dirty(doc, fault) == doc

\* handle_autosave, the body of the loop: the document after it
autosave_doc(doc, fault) ==
    IF ~doc.dirty THEN doc
    ELSE IF doc.path # None THEN save(doc, fault)
    ELSE doc

\* handle_autosave, the body of the loop: the file system after it
autosave_fs(doc, f, fault, cwd_ok) ==
    IF ~doc.dirty THEN f
    ELSE IF doc.path # None THEN save_fs(doc, f, fault)
    ELSE IF cwd_ok /\ autosave_name(doc.id) \in DOMAIN f
         THEN fs_write(f, autosave_name(doc.id), doc.text, fault)
    ELSE f

\* the loop body with one scratch file for all untitled documents
autosave_io_one_file(doc, fault, cwd_ok) ==
    IF ~doc.dirty THEN <<>>
    ELSE IF doc.path # None THEN save_io(doc, fault)
    ELSE IF cwd_ok
         THEN <<write_rec(doc.id, autosave_name(0), doc.text, fault)>>
    ELSE <<>>

\* handle_autosave, the body of the loop: the fs::write calls it makes
autosave_io(doc, fault, cwd_ok) ==
    IF ~doc.dirty THEN <<>>
    ELSE IF doc.path # None THEN save_io(doc, fault)
    ELSE IF cwd_ok
         THEN <<write_rec(doc.id, autosave_name(doc.id), doc.text, fault)>>
    ELSE <<>>

RECURSIVE autosave_loop_abort(_, _, _, _)
\* the loop leaving at the first write that fails
autosave_loop_abort(s, i, faults, cwd_ok) ==
    IF i > Len(s.docs) THEN s
    ELSE IF s.docs[i].dirty /\ faults[i] # "ok"
              /\ autosave_io(s.docs[i], faults[i], cwd_ok) # <<>>
         THEN [s EXCEPT !.io = s.io \o autosave_io(s.docs[i], faults[i], cwd_ok)]
    ELSE autosave_loop_abort(
            [s EXCEPT !.docs[i] = autosave_doc(s.docs[i], faults[i]),
                      !.fs = autosave_fs(s.docs[i], s.fs, faults[i], cwd_ok),
                      !.io = s.io \o autosave_io(s.docs[i], faults[i], cwd_ok)],
            i + 1, faults, cwd_ok)

RECURSIVE autosave_loop(_, _, _, _)
\* handle_autosave, the loop over docs from position i on; faults[i] is the
\* outcome of the write for the document at position i
autosave_loop(s, i, faults, cwd_ok) ==
    IF i > Len(s.docs) THEN s
    ELSE autosave_loop(
            [s EXCEPT !.docs[i] = autosave_doc(s.docs[i], faults[i]),
                      !.fs = autosave_fs(s.docs[i], s.fs, faults[i], cwd_ok),
                      !.io = s.io \o autosave_io(s.docs[i], faults[i], cwd_ok)],
            i + 1, faults, cwd_ok)

\* the test of handle_autosave at time t
autosave_due(s, t) == t - s.last_autosave >= s.autosave_interval

\* handle_autosave without `self.last_autosave = Instant::now()`
handle_autosave_no_stamp(s, t, faults, cwd_ok) ==
    IF autosave_due(s, t)
    THEN autosave_loop(s, 1, faults, cwd_ok)
    ELSE s

\* TextEditorApp::handle_autosave called at time t
handle_autosave(s, t, faults, cwd_ok) ==
    IF autosave_due(s, t)
    THEN [autosave_loop(s, 1, faults, cwd_ok) EXCEPT !.last_autosave = t]
    ELSE s

----------------------------------------------------------------------------
(* Specification of the session (Spec): one step is one call of            *)
(* TextEditorApp::update with at most one input of the user, that is the   *)
(* handler of that input followed by handle_autosave.                      *)

Init ==
    /\ InitApp
    /\ docs = <<new_untitled(1)>>
    /\ fs = InitFs
    /\ ghost = <<>>
    /\ last = op_rec("init", 0, <<>>, FALSE, 0, TRUE, FALSE)
    /\ io = <<>>

\* the bounds on a session the model keeps
app_within_bounds(s) ==
    /\ Len(s.docs) <= MaxDocs
    /\ s.next_doc_id <= MaxId + 1
    /\ \A i \in 1..Len(s.docs) : Len(s.docs[i].undo_stack) <= MaxAppHist

\* the outcomes of the writes of a sweep at time t: one per dirty document
SweepFaults(s, t) ==
    {f \in [1..Len(s.docs) -> AppFaults] :
        \A i \in 1..Len(s.docs) :
            (autosave_due(s, t) /\ s.docs[i].dirty) \/ f[i] = "ok"}

\* the outcomes of std::env::current_dir in a sweep at time t
SweepCwd(s, t) ==
    IF autosave_due(s, t)
       /\ \E i \in 1..Len(s.docs) : s.docs[i].dirty /\ s.docs[i].path = None
    THEN BOOLEAN ELSE {TRUE}

\* TextEditorApp::update after the handler of the frame's input left the
\* session in state h: handle_autosave runs at the time of the frame, which
\* is at most max_now
Update(h, max_now, name, idx, arg, count, ok) ==
    \E dt \in {0, TickSecs} :
        /\ now + dt <= max_now
        /\ now' = now + dt
        /\ \E faults \in SweepFaults(h, now + dt), cwd_ok \in SweepCwd(h, now + dt) :
            \E s2 \in {handle_autosave(h, now + dt, faults, cwd_ok)} :
                /\ docs' = s2.docs
                /\ active_doc' = s2.active_doc
                /\ next_doc_id' = s2.next_doc_id
                /\ find_text' = s2.find_text
                /\ replace_text' = s2.replace_text
                /\ last_replace_count' = s2.last_replace_count
                /\ autosave_interval' = s2.autosave_interval
                /\ last_autosave' = s2.last_autosave
                /\ fs' = s2.fs
                /\ io' = s2.io
                /\ last' = op_rec(name, idx, arg, FALSE, count, ok,
                                  autosave_due(h, now + dt))

\* one call of update in the session specification: s1 is the state the
\* handler of the frame's input left
Frame(s1, name, count, ok) ==
    \E h \in {s1} :
        /\ app_within_bounds(h)
        /\ Update(h, MaxTicks * TickSecs, name, 0, <<>>, count, ok)
        /\ UNCHANGED ghost

\* a frame without input
Idle ==
    /\ Frame(St, "idle", 0, TRUE)
    /\ TRUE

FileNew ==
    /\ Frame(file_new(St), "new", 0, TRUE)
    /\ TRUE

FileOpen(picked, read_ok) ==
    /\ Frame(file_open(St, picked, read_ok), "open", 0,
             file_open(St, picked, read_ok) # St)
    /\ TRUE

FileSave(picked, fault) ==
    /\ Frame(file_save(St, picked, fault), "file_save", 0,
             \A k \in 1..Len(file_save(St, picked, fault).io) :
                 file_save(St, picked, fault).io[k].ok)
    /\ TRUE

FileSaveAs(picked, fault) ==
    /\ Frame(file_save_as(St, picked, fault), "file_save_as", 0,
             \A k \in 1..Len(file_save_as(St, picked, fault).io) :
                 file_save_as(St, picked, fault).io[k].ok)
    /\ TRUE

EditUndo ==
    /\ Frame(edit_undo(St), "undo", 0, TRUE)
    /\ TRUE

EditRedo ==
    /\ Frame(edit_redo(St), "redo", 0, TRUE)
    /\ TRUE

SearchReplaceAll(needle, replacement) ==
    /\ Frame(search_replace_all(St, needle, replacement), "replace_all",
             replace_all_count(current_doc(St), needle, replacement), TRUE)
    /\ TRUE

ViewInterval(secs) ==
    /\ Frame(view_interval(St, secs), "interval", 0, TRUE)
    /\ TRUE

TabSelect(i) ==
    /\ Frame(tabs_bar(St, Some(i), None), "select", i, TRUE)
    /\ TRUE

TabClose(i) ==
    /\ Frame(tabs_bar(St, None, Some(i)), "close", i, TRUE)
    /\ TRUE

EditorArea(text) ==
    /\ Frame(editor_area(St, text), "set_text", 0, TRUE)
    /\ TRUE

Next ==
    \/ Idle
    \/ FileNew
    \/ \E p \in {None} \cup {Some(q) : q \in AppPaths}, r \in BOOLEAN : FileOpen(p, r)
    \/ \E p \in {None} \cup {Some(q) : q \in AppPaths}, f \in AppFaults : FileSave(p, f)
    \/ \E p \in {None} \cup {Some(q) : q \in AppPaths}, f \in AppFaults : FileSaveAs(p, f)
    \/ EditUndo
    \/ EditRedo
    \/ \E a \in AppSearches : SearchReplaceAll(a[1], a[2])
    \/ \E secs \in IntervalChoices : ViewInterval(secs)
    \/ \E i \in 0..(Len(docs) - 1) : TabSelect(i)
    \/ \E i \in 0..(Len(docs) - 1) : TabClose(i)
    \/ \E t \in AppTexts : EditorArea(t)

Spec == Init /\ [][Next]_vars

----------------------------------------------------------------------------
(* Specification of the tabs (SpecTabs): the session driven by "New",      *)
(* "Open...", the tab labels and the close buttons only, with more open    *)
(* documents than Spec allows.  Here `ghost` is the sequence of the ids    *)
(* given to documents since the start of the session, closed ones included *)

InitTabs ==
    /\ InitApp
    /\ docs = <<new_untitled(1)>>
    /\ fs = InitFs
    /\ ghost = <<1>>
    /\ last = op_rec("init", 0, <<>>, FALSE, 0, TRUE, FALSE)
    /\ io = <<>>

\* the bounds on a session the tabs specification keeps
tabs_within_bounds(s) ==
    /\ Len(s.docs) <= MaxTabs
    /\ s.next_doc_id <= MaxTabId + 1

\* the ids of the documents the handler that left state s pushed on docs
created(s) ==
    IF Len(s.docs) > Len(docs) THEN <<s.docs[Len(s.docs)].id>> ELSE <<>>

\* one call of update in the tabs specification
TabsFrame(s1, name, count, ok) ==
    \E h \in {s1} :
        /\ tabs_within_bounds(h)
        /\ Update(h, MaxTicks * TickSecs, name, 0, <<>>, count, ok)
        /\ ghost' = ghost \o created(h)

TabsNew ==
    /\ TabsFrame(file_new(St), "new", 0, TRUE)
    /\ TRUE

TabsOpen(picked, read_ok) ==
    /\ TabsFrame(file_open(St, picked, read_ok), "open", 0,
                 file_open(St, picked, read_ok) # St)
    /\ TRUE

TabsSelect(i) ==
    /\ TabsFrame(tabs_bar(St, Some(i), None), "select", i, TRUE)
    /\ TRUE

TabsClose(i) ==
    /\ TabsFrame(tabs_bar(St, None, Some(i)), "close", i, TRUE)
    /\ TRUE

NextTabs ==
    \/ TabsNew
    \/ \E p \in {None} \cup {Some(q) : q \in Paths}, r \in BOOLEAN : TabsOpen(p, r)
    \/ \E i \in 0..(Len(docs) - 1) : TabsSelect(i)
    \/ \E i \in 0..(Len(docs) - 1) : TabsClose(i)

SpecTabs == InitTabs /\ [][NextTabs]_vars

----------------------------------------------------------------------------
(* Specification of saving and autosave (SpecSave): the session with its   *)
(* first document only, driven by the editor, "Save", "Save as...", the    *)
(* autosave interval and the clock, over more ticks and paths than Spec.   *)
(* Here `ghost` is the sequence of the sweeps that ran: the time of each   *)
(* and the interval in force at it                                         *)

InitSave ==
    /\ InitApp
    /\ docs = <<new_untitled(1)>>
    /\ fs = InitFs
    /\ ghost = <<>>
    /\ last = op_rec("init", 0, <<>>, FALSE, 0, TRUE, FALSE)
    /\ io = <<>>

\* the bound on a session the autosave specification keeps
save_within_bounds(s) ==
    \A i \in 1..Len(s.docs) : Len(s.docs[i].undo_stack) <= MaxAppHist

\* the record of the sweep of the frame that leaves the primed state
sweep_rec == [at |-> now', interval |-> autosave_interval']

\* one call of update in the autosave specification
SaveFrame(s1, name, arg, ok) ==
    \E h \in {s1} :
        /\ save_within_bounds(h)
        /\ Update(h, MaxSaveTicks * TickSecs, name, 1, arg, 0, ok)
        /\ ghost' = IF last'.swept THEN Append(ghost, sweep_rec) ELSE ghost

SaveIdle ==
    /\ SaveFrame(St, "idle", <<>>, TRUE)
    /\ TRUE

SaveEdit(text) ==
    /\ SaveFrame(editor_area(St, text), "set_text", <<text>>, TRUE)
    /\ TRUE

SaveUndo ==
    /\ SaveFrame(edit_undo(St), "undo", <<>>, TRUE)
    /\ TRUE

SaveSave(picked, fault) ==
    /\ SaveFrame(file_save(St, picked, fault), "file_save", picked,
                 \A k \in 1..Len(file_save(St, picked, fault).io) :
                     file_save(St, picked, fault).io[k].ok)
    /\ TRUE

SaveSaveAs(picked, fault) ==
    /\ SaveFrame(file_save_as(St, picked, fault), "file_save_as", picked,
                 \A k \in 1..Len(file_save_as(St, picked, fault).io) :
                     file_save_as(St, picked, fault).io[k].ok)
    /\ TRUE

SaveInterval(secs) ==
    /\ SaveFrame(view_interval(St, secs), "interval", <<secs>>, TRUE)
    /\ TRUE

NextSave ==
    \/ SaveIdle
    \/ \E t \in SaveTexts : SaveEdit(t)
    \/ SaveUndo
    \/ \E p \in {None} \cup {Some(q) : q \in Paths}, f \in AppFaults : SaveSave(p, f)
    \/ \E p \in {None} \cup {Some(q) : q \in Paths}, f \in AppFaults : SaveSaveAs(p, f)
    \/ \E secs \in IntervalChoices : SaveInterval(secs)

SpecSave == InitSave /\ [][NextSave]_vars

----------------------------------------------------------------------------
(* Specification of the session that never stops (SpecLive).  An Instant   *)
(* is observed only through last_autosave.elapsed(), the difference of two *)
(* Instants, so this specification measures the clock from the Instant in  *)
(* last_autosave: last_autosave is 0 and `now` is the time elapsed since.  *)
(* The elapsed time is below the largest interval after every frame, so    *)
(* the clock needs no cap and the frames never end.                        *)

\* one call of update in SpecLive, the clock advancing by one of dts; with
\* all_ok the writes of the sweep succeed
LiveFrame(s1, dts, all_ok, name, count, ok) ==
    \E h \in {s1} :
        /\ app_within_bounds(h)
        /\ \E dt \in dts :
            \E faults \in SweepFaults(h, now + dt), cwd_ok \in SweepCwd(h, now + dt) :
                \E s2 \in {handle_autosave(h, now + dt, faults, cwd_ok)} :
                    /\ all_ok => \A i \in 1..Len(faults) : faults[i] = "ok"
                    /\ docs' = s2.docs
                    /\ active_doc' = s2.active_doc
                    /\ next_doc_id' = s2.next_doc_id
                    /\ find_text' = s2.find_text
                    /\ replace_text' = s2.replace_text
                    /\ last_replace_count' = s2.last_replace_count
                    /\ autosave_interval' = s2.autosave_interval
                    /\ last_autosave' = s2.last_autosave - s2.last_autosave
                    /\ now' = (now + dt) - s2.last_autosave
                    /\ fs' = s2.fs
                    /\ io' = s2.io
                    /\ last' = op_rec(name, 0, <<>>, FALSE, count, ok,
                                      autosave_due(h, now + dt))
        /\ UNCHANGED ghost

LiveIdle ==
    /\ LiveFrame(St, {0, TickSecs}, FALSE, "idle", 0, TRUE)
    /\ TRUE

\* the editor changes the text of the active document: `count` is its id,
\* or 0 when the text typed is the text it has
LiveEdit(text) ==
    /\ LiveFrame(editor_area(St, text), {0, TickSecs}, FALSE, "set_text",
                 IF text # current_doc(St).text THEN current_doc(St).id ELSE 0, TRUE)
    /\ TRUE

LiveSaveAs(picked, fault) ==
    /\ LiveFrame(file_save_as(St, picked, fault), {0, TickSecs}, FALSE, "file_save_as", 0,
                 \A k \in 1..Len(file_save_as(St, picked, fault).io) :
                     file_save_as(St, picked, fault).io[k].ok)
    /\ TRUE

LiveNew ==
    /\ LiveFrame(file_new(St), {0, TickSecs}, FALSE, "new", 0, TRUE)
    /\ TRUE

LiveSelect(i) ==
    /\ LiveFrame(tabs_bar(St, Some(i), None), {0, TickSecs}, FALSE, "select", i, TRUE)
    /\ TRUE

LiveClose(i) ==
    /\ LiveFrame(tabs_bar(St, None, Some(i)), {0, TickSecs}, FALSE, "close", i, TRUE)
    /\ TRUE

LiveInterval(secs) ==
    /\ LiveFrame(view_interval(St, secs), {0, TickSecs}, FALSE, "interval", 0, TRUE)
    /\ TRUE

NextLive ==
    \/ LiveIdle
    \/ \E t \in AppTexts : LiveEdit(t)
    \/ \E p \in {None} \cup {Some(q) : q \in AppPaths}, f \in AppFaults : LiveSaveAs(p, f)
    \/ LiveNew
    \/ \E i \in 0..(Len(docs) - 1) : LiveSelect(i)
    \/ \E i \in 0..(Len(docs) - 1) : LiveClose(i)
    \/ \E secs \in IntervalChoices : LiveInterval(secs)

\* a frame after the clock advanced: update asks for a repaint after 16 ms
\* (app.rs:300), so frames keep coming while the clock runs
LiveTick == LiveFrame(St, {TickSecs}, FALSE, "idle", 0, TRUE)

\* a frame whose sweep runs and whose writes all succeed
LiveSweepOk == LiveFrame(St, {TickSecs}, TRUE, "idle", 0, TRUE) /\ last'.swept

\* frames keep coming with the clock running, and the writes of a sweep
\* succeed again and again
SpecLive ==
    Init /\ [][NextLive]_vars /\ WF_vars(LiveTick) /\ SF_vars(LiveSweepOk)

----------------------------------------------------------------------------
(* Properties *)

\* the document the last operation acted on, before and after the step
Pre == docs[last'.idx]
Post == docs'[last'.idx]

Reverse(s) == [i \in 1..Len(s) |-> s[Len(s) + 1 - i]]

\* every snapshot a document holds, oldest first
timeline(doc) == doc.undo_stack \o <<doc.text>> \o Reverse(doc.redo_stack)

\* the text a document had when it was created or loaded, or last saved
baseline(g) == IF g.saved = None THEN <<>> ELSE g.saved[1]

\* the text of every document is the one the edit history says is in effect,
\* and the stacks hold as many entries as there are edits before and after it
C1Inv ==
    \A i \in 1..Len(docs) :
        /\ docs[i].text = ghost[i].hist[ghost[i].cur]
        /\ Len(docs[i].undo_stack) = ghost[i].cur - 1
        /\ Len(docs[i].redo_stack) = Len(ghost[i].hist) - ghost[i].cur

\* undo on an empty undo stack and redo on an empty redo stack change nothing
C1Exhausted ==
    /\ (last'.op = "undo" /\ Pre.undo_stack = <<>>) => Post = Pre
    /\ (last'.op = "redo" /\ Pre.redo_stack = <<>>) => Post = Pre

\* C1: after k text-changing set_text calls, N <= k undo calls leave the text
\* that was current after the first k-N edits, N redo calls then leave the
\* text after all k edits, and undo/redo on an exhausted stack is a no-op.
C1_UndoRedoInverse == []C1Inv /\ [][C1Exhausted]_vars

\* two edits were undone and redone again
C1_Witness ==
    /\ last.op = "redo" /\ last.changed
    /\ Len(ghost[1].hist) = 3 /\ ghost[1].cur = 3
    /\ docs[1].text = ghost[1].hist[3]

\* C2 (as stated): dirty holds exactly when the text differs from the last
\* successful save to the path or the document was never saved.
C2_DirtyIffUnsaved ==
    \A i \in 1..Len(docs) :
        docs[i].dirty <=>
            (ghost[i].saved = None \/ docs[i].text # ghost[i].saved[1])

\* C2 (amended): a document that is not dirty has the text of its last
\* successful save, or the text it was created or loaded with if it was
\* never saved.
C2_CleanMeansSaved ==
    \A i \in 1..Len(docs) :
        ~docs[i].dirty => docs[i].text = baseline(ghost[i])

\* an edited document was saved and is clean, with its history kept
C2_Witness ==
    /\ last.op = "save" /\ last.ok
    /\ ~docs[1].dirty
    /\ docs[1].undo_stack # <<>>
    /\ docs[1].text = ghost[1].saved[1]

\* C3: in every step, a document that was dirty and is no longer dirty has
\* a path and its text was written to that path successfully in the step;
\* a document whose text the sweep wrote to its scratch file stays dirty
\* and without path.
C3_DirtyClearedOnlyBySave ==
    [][/\ \A i \in 1..Len(docs), j \in 1..Len(docs') :
            (docs[i].id = docs'[j].id /\ docs[i].dirty /\ ~docs'[j].dirty) =>
                /\ docs'[j].path # None
                /\ \E k \in 1..Len(io') :
                      io'[k] = [doc |-> docs'[j].id, target |-> docs'[j].path[1],
                                content |-> docs'[j].text, ok |-> TRUE]
       /\ \A k \in 1..Len(io'), j \in 1..Len(docs') :
            (io'[k].target = autosave_name(docs'[j].id)) =>
                docs'[j].dirty /\ docs'[j].path = None]_vars

\* a sweep saved a dirty titled document, which is clean now, and wrote the
\* scratch file of a dirty untitled document, which is still dirty
C3_Witness ==
    /\ last.op = "idle" /\ last.swept
    /\ \E j \in 1..Len(docs), k \in 1..Len(io) :
          /\ docs[j].path # None /\ ~docs[j].dirty
          /\ io[k] = [doc |-> docs[j].id, target |-> docs[j].path[1],
                      content |-> docs[j].text, ok |-> TRUE]
    /\ \E j \in 1..Len(docs), k \in 1..Len(io) :
          /\ docs[j].path = None /\ docs[j].dirty
          /\ io[k] = [doc |-> docs[j].id, target |-> autosave_name(docs[j].id),
                      content |-> docs[j].text, ok |-> TRUE]

\* C4: after a save or save_as that returned an error the document is dirty
\* and its text and history stacks are what they were before the call.
C4_FailedSaveDirty ==
    [][(last'.op \in {"save", "save_as"} /\ ~last'.ok) =>
            /\ Post.dirty
            /\ Post.text = Pre.text
            /\ Post.undo_stack = Pre.undo_stack
            /\ Post.redo_stack = Pre.redo_stack]_vars

\* C5: set_text with the current text changes nothing of the document.
C5_SetTextSameNoop ==
    [][(last'.op = "set_text" /\ last'.arg[1] = Pre.text) => Post = Pre]_vars

\* set_text was called with the current text while a redo path was pending
C5_Witness ==
    /\ last.op = "set_text" /\ last.arg[1] = docs[1].text /\ ~last.changed
    /\ docs[1].redo_stack # <<>>

\* C6: a set_text that changes the text (replace_all's included) empties the
\* redo stack, pushes the previous text on the undo stack and sets dirty, so
\* a redo right after it changes nothing.
C6_EditClearsRedo ==
    [][(last'.op \in {"set_text", "replace_all"} /\ Post.text # Pre.text) =>
            /\ Post.redo_stack = <<>>
            /\ Post.undo_stack = Append(Pre.undo_stack, Pre.text)
            /\ Post.dirty
            /\ redo(Post) = Post]_vars

\* an edit was committed on a document that has a history
C6_Witness ==
    /\ last.op = "set_text" /\ last.changed
    /\ Len(docs[1].undo_stack) >= 2
    /\ docs[1].redo_stack = <<>>
    /\ docs[1].dirty

\* C7: undo and redo keep every snapshot: undo_stack ++ [text] ++
\* reverse(redo_stack) and the total size of the stacks are the same before
\* and after; the current text moves by one position when a stack entry exists.
C7_UndoRedoKeepSnapshots ==
    [][(last'.op \in {"undo", "redo"}) =>
            /\ timeline(Post) = timeline(Pre)
            /\ Len(Post.undo_stack) + Len(Post.redo_stack)
                 = Len(Pre.undo_stack) + Len(Pre.redo_stack)
            /\ (last'.op = "undo" /\ Pre.undo_stack # <<>>) =>
                 Len(Post.undo_stack) = Len(Pre.undo_stack) - 1
            /\ (last'.op = "redo" /\ Pre.redo_stack # <<>>) =>
                 Len(Post.undo_stack) = Len(Pre.undo_stack) + 1]_vars

\* a redo moved the text while both stacks are non-empty
C7_Witness ==
    /\ last.op = "redo" /\ last.changed
    /\ docs[1].undo_stack # <<>>
    /\ docs[1].redo_stack # <<>>

\* positions at which needle occurs in text
occurrences(text, needle) ==
    {i \in 1..(Len(text) - Len(needle) + 1) :
        SubSeq(text, i, i + Len(needle) - 1) = needle}

\* the occurrences a left-to-right scan takes: an occurrence is taken
\* exactly when no taken occurrence before it overlaps it
scanned(text, needle) ==
    CHOOSE S \in SUBSET occurrences(text, needle) :
        \A i \in occurrences(text, needle) :
            i \in S <=> \A j \in S : j < i => j + Len(needle) <= i

Range(s) == {s[i] : i \in 1..Len(s)}

\* C8 (as stated): with a non-empty needle that does not occur in the
\* replacement, replace_all returns the number of non-overlapping
\* occurrences and the resulting text has no occurrence of the needle.
C8_ReplaceAllRemovesNeedle ==
    [][(/\ last'.op = "replace_all"
        /\ last'.arg[1] # <<>>
        /\ occurrences(last'.arg[2], last'.arg[1]) = {}) =>
            /\ last'.count = Cardinality(scanned(Pre.text, last'.arg[1]))
            /\ occurrences(Post.text, last'.arg[1]) = {}]_vars

\* C8 (amended): the count is as stated; the result is free of the needle
\* when the replacement is non-empty and has no character of the needle.
C8_ReplaceAllCount ==
    [][(/\ last'.op = "replace_all"
        /\ last'.arg[1] # <<>>
        /\ occurrences(last'.arg[2], last'.arg[1]) = {}) =>
            /\ last'.count = Cardinality(scanned(Pre.text, last'.arg[1]))
            /\ (last'.arg[2] # <<>> /\ Range(last'.arg[2]) \cap Range(last'.arg[1]) = {})
                 => occurrences(Post.text, last'.arg[1]) = {}]_vars

\* the needle "aa" was replaced in "aaa", where its two occurrences overlap
\* and the scan takes the first, by a text without its characters
C8_Witness ==
    /\ last.op = "replace_all" /\ last.count = 1 /\ last.changed
    /\ last.arg = << <<"a", "a">>, <<"b">> >>
    /\ docs[1].undo_stack = << <<"a", "a", "a">> >>
    /\ docs[1].text = <<"b", "a">>

\* the effect of one committed edit on the history
one_edit(pre, post) ==
    /\ post.undo_stack = Append(pre.undo_stack, pre.text)
    /\ post.redo_stack = <<>>
    /\ post.dirty
    /\ undo(post).text = pre.text

\* C9 (as stated): replace_all returning a count > 0 is one edit of the
\* history that a single undo reverts; returning 0 it changes nothing; an
\* empty needle returns 0.
C9_ReplaceAllOneEdit ==
    [][(last'.op = "replace_all") =>
            /\ last'.count > 0 => one_edit(Pre, Post)
            /\ last'.count = 0 => Post = Pre
            /\ last'.arg[1] = <<>> => last'.count = 0]_vars

\* C9 (amended): the count > 0 case is one edit only when the replacement
\* differs from the needle; when it equals the needle nothing changes.
C9_ReplaceAllOneEditIfChanged ==
    [][(last'.op = "replace_all") =>
            /\ (last'.count > 0 /\ last'.arg[2] # last'.arg[1]) =>
                 one_edit(Pre, Post) /\ Post.text # Pre.text
            /\ (last'.count = 0 \/ last'.arg[2] = last'.arg[1]) => Post = Pre
            /\ last'.arg[1] = <<>> => last'.count = 0]_vars

\* replace_all replaced two occurrences in one history entry
C9_Witness ==
    /\ last.op = "replace_all" /\ last.count = 2 /\ last.changed
    /\ docs[1].undo_stack # <<>>
    /\ docs[1].redo_stack = <<>>
    /\ docs[1].dirty

\* C10: save on a document without a path returns Ok, writes no file and
\* leaves the document unchanged.
C10_SaveNoPathNoop ==
    [][(last'.op = "save" /\ Pre.path = None) =>
            /\ last'.ok
            /\ io' = <<>>
            /\ fs' = fs
            /\ Post = Pre]_vars

\* save was called on a dirty document without a path
C10_Witness ==
    /\ last.op = "save"
    /\ docs[1].path = None
    /\ docs[1].dirty
    /\ io = <<>>

\* C11: after a save_as(p) that returned Ok the path is p, the document is
\* not dirty, the file p holds the text, the text and both stacks are what
\* they were, and an undo still restores the previous text and sets dirty.
C11_SaveAsSucceeds ==
    [][(last'.op = "save_as" /\ last'.ok) =>
            /\ Post.path = Some(last'.arg[1])
            /\ ~Post.dirty
            /\ fs'[last'.arg[1]] = Some(Post.text)
            /\ Post.text = Pre.text
            /\ Post.undo_stack = Pre.undo_stack
            /\ Post.redo_stack = Pre.redo_stack
            /\ Pre.undo_stack # <<>> =>
                  /\ undo(Post).text = Pre.undo_stack[Len(Pre.undo_stack)]
                  /\ undo(Post).dirty]_vars

\* an edited document was saved under the second path and has its history
C11_Witness ==
    /\ last.op = "save_as" /\ last.ok /\ last.arg = << <<"d2", "f">> >>
    /\ docs[1].path = Some(<<"d2", "f">>)
    /\ ~docs[1].dirty
    /\ docs[1].undo_stack # <<>>
    /\ fs[<<"d2", "f">>] = Some(docs[1].text)
    /\ fs[<<"d1", "f">>] # fs[<<"d2", "f">>]

\* a document without its dirty flag
content(doc) == [doc EXCEPT !.dirty = FALSE]

\* the list of documents is not empty, active_doc is a position of it, and
\* the close button of the only tab leaves the session as it is
C12Inv ==
    /\ Len(docs) >= 1
    /\ 0 <= active_doc /\ active_doc < Len(docs)
    /\ Len(docs) = 1 => tabs_bar(St, None, Some(0)) = St

\* a frame in which the only tab's close button was clicked keeps the document
C12CloseLast ==
    (last'.op = "close" /\ Len(docs) = 1) =>
        /\ Len(docs') = 1
        /\ content(docs'[1]) = content(docs[1])
        /\ active_doc' = active_doc

\* C12: in every state reachable by new, open, close, select, edit, save
\* and autosave steps docs is non-empty and 0 <= active_doc < Len(docs), and
\* a close request on a single document leaves the documents unchanged.
C12_ActiveIndexValid == []C12Inv /\ [][C12CloseLast]_vars

\* the close button was clicked on the only document the session ever had,
\* which has unsaved edits
C12_Witness ==
    /\ last.op = "close"
    /\ next_doc_id = 2
    /\ Len(docs) = 1 /\ docs[1].id = 1
    /\ docs[1].dirty /\ docs[1].text # <<>>
    /\ active_doc = 0

\* C13: closing tab i of n > 1 documents removes the document at position i
\* and keeps the others in order; active_doc stays a when a <= n-2 and
\* becomes n-2 otherwise.
C13_CloseRemovesOne ==
    [][(last'.op = "close" /\ Len(docs) > 1) =>
            /\ Len(docs') = Len(docs) - 1
            /\ \A k \in 1..Len(docs') :
                  docs'[k] = IF k <= last'.count THEN docs[k] ELSE docs[k + 1]
            /\ active_doc' = IF active_doc <= Len(docs) - 2
                             THEN active_doc ELSE Len(docs) - 2]_vars

\* the first of three tabs was closed, the second and third remain in order
C13_Witness ==
    /\ last.op = "close" /\ last.count = 0
    /\ Len(docs) = 2
    /\ docs[1].id = 2 /\ docs[2].id = 3
    /\ active_doc = 1
    /\ next_doc_id = 4

\* the ids given so far are pairwise different, every open document has one
\* of them, and every open document's id is below next_doc_id
C14Inv ==
    /\ \A i, j \in 1..Len(ghost) : i # j => ghost[i] # ghost[j]
    /\ \A i \in 1..Len(docs) :
          /\ docs[i].id < next_doc_id
          /\ \E k \in 1..Len(ghost) : ghost[k] = docs[i].id
    /\ \A i, j \in 1..Len(docs) : i # j => docs[i].id # docs[j].id

\* next_doc_id grows by one with every document pushed and not otherwise
C14Step ==
    /\ next_doc_id' >= next_doc_id
    /\ (last'.op = "new" \/ (last'.op = "open" /\ last'.ok)) =>
          /\ next_doc_id' = next_doc_id + 1
          /\ Len(docs') = Len(docs) + 1
          /\ docs'[Len(docs')].id = next_doc_id
    /\ ((last'.op = "open" /\ ~last'.ok) \/ last'.op \in {"close", "select"}) =>
          next_doc_id' = next_doc_id

\* C14: document ids are unique in the session and never reused:
\* next_doc_id never decreases, grows by exactly 1 on every new and every
\* successful open, is unchanged by a failed open or a close, every document
\* created gets an id no earlier document had, and the ids of the open
\* documents are below next_doc_id.
C14_IdsUnique == []C14Inv /\ [][C14Step]_vars

\* a document was created after another was closed: its id is new
C14_Witness ==
    /\ last.op \in {"new", "open"} /\ last.ok
    /\ Len(ghost) = 4
    /\ Len(docs) = 2
    /\ docs[2].id = 4

\* C19: closing a tab other than the active one leaves the same document
\* (same id) active.
C19_CloseKeepsActiveDoc ==
    [][(last'.op = "close" /\ Len(docs) > 1 /\ last'.count # active_doc) =>
            docs'[active_doc' + 1].id = docs[active_doc + 1].id]_vars

\* called before it is due, handle_autosave leaves the session as it is
C15Quiet ==
    \A t \in {now, now + TickSecs} :
        ~autosave_due(St, t) =>
            \A f \in [1..Len(docs) -> AppFaults], c \in BOOLEAN :
                handle_autosave(St, t, f, c) = St

\* every sweep ran at least the interval in force at it after the sweep
\* before it, the first after the start of the session (time 0), and
\* last_autosave is the time of the last sweep
C15Spaced ==
    /\ \A k \in 1..Len(ghost) :
          ghost[k].at - (IF k = 1 THEN 0 ELSE ghost[k - 1].at) >= ghost[k].interval
    /\ last_autosave = IF ghost = <<>> THEN 0 ELSE ghost[Len(ghost)].at

\* a frame whose sweep ran sets last_autosave to the time of the frame, a
\* frame whose sweep did not run leaves it, and a frame without input and
\* without sweep writes nothing and changes nothing but the clock
C15Step ==
    /\ last'.swept <=> now' - last_autosave >= autosave_interval'
    /\ last'.swept => last_autosave' = now'
    /\ ~last'.swept => last_autosave' = last_autosave
    /\ (last'.op = "idle" /\ ~last'.swept) =>
          /\ io' = <<>>
          /\ UNCHANGED <<docs, active_doc, next_doc_id, find_text, replace_text,
                         last_replace_count, autosave_interval, fs>>

\* C15: a sweep called when now - last_autosave < autosave_interval writes
\* nothing and changes no state; a sweep called when it is >= the interval
\* sets last_autosave to the current time even if no document is dirty; so
\* two sweeps that run are at least the later one's interval apart and the
\* first runs no earlier than one interval after the start.
C15_SweepTiming == [](C15Quiet /\ C15Spaced) /\ [][C15Step]_vars

\* a second sweep ran, exactly one interval after the first, with no
\* document dirty
C15_Witness ==
    /\ last.op = "idle" /\ last.swept
    /\ Len(ghost) = 2
    /\ ghost[2].at - ghost[1].at = ghost[2].interval
    /\ \A i \in 1..Len(docs) : ~docs[i].dirty
    /\ io = <<>>
    /\ last_autosave = now

\* C18: save_as(p) sets the path before it writes: after a failed
\* save_as(p) the path is p and text and stacks are unchanged, and so are
\* dirty and the files unless the sweep of the same frame ran; a later save
\* and every later sweep of the document while dirty write to its path.
C18_FailedSaveAsKeepsPath ==
    [][/\ (last'.op = "file_save_as" /\ ~last'.ok) =>
              /\ docs'[1].path = last'.arg
              /\ docs'[1].text = docs[1].text
              /\ docs'[1].undo_stack = docs[1].undo_stack
              /\ docs'[1].redo_stack = docs[1].redo_stack
              /\ ~last'.swept => (docs'[1].dirty = docs[1].dirty /\ fs' = fs)
       /\ (last'.op = "file_save" /\ docs[1].path # None) =>
              /\ Len(io') >= 1
              /\ io'[1].target = docs[1].path[1]
              /\ io'[1].content = docs[1].text
       /\ (last'.op = "idle" /\ last'.swept /\ docs[1].dirty /\ docs[1].path # None) =>
              /\ Len(io') = 1
              /\ io'[1].target = docs[1].path[1]
              /\ io'[1].content = docs[1].text]_vars

\* the document was saved to the first path, then save_as to the second
\* path failed, and a sweep has just tried to write the dirty document to
\* the second path, which still does not exist
C18_Witness ==
    /\ last.op = "idle" /\ last.swept
    /\ fs[<<"d1", "f">>] = Some(<<"b">>)
    /\ docs[1].path = Some(<<"d2", "f">>)
    /\ fs[<<"d2", "f">>] = None
    /\ docs[1].dirty
    /\ Len(io) = 1 /\ io[1].target = <<"d2", "f">> /\ ~io[1].ok

\* the fs::write calls of the last step made for the document `id`
writes_of(w, id) == {k \in 1..Len(w) : w[k].doc = id}

\* the fs::write calls of the last step made to scratch files
scratch_writes(w) == {k \in 1..Len(w) : w[k].target[1] = "cwd"}

\* a sweep leaves the list of documents, every document but its dirty flag,
\* and active_doc as they are; a dirty untitled document stays dirty and
\* untitled; open documents have different scratch files
C16Kept ==
    /\ Len(docs') = Len(docs)
    /\ active_doc' = active_doc
    /\ \A i \in 1..Len(docs) :
          /\ content(docs'[i]) = content(docs[i])
          /\ (docs[i].dirty /\ docs[i].path = None) => docs'[i].dirty
    /\ \A i, j \in 1..Len(docs) :
          i # j => autosave_name(docs[i].id) # autosave_name(docs[j].id)

ids(d) == [k \in 1..Len(d) |-> d[k].id]

is_dirty(doc) == doc.dirty

has_path(doc) == doc.path # None

\* a document whose write failed stays dirty with its text, and the sweep
\* sets last_autosave
C17Failed ==
    /\ \A k \in 1..Len(io'), i \in 1..Len(docs) :
          (io'[k].doc = docs[i].id /\ ~io'[k].ok) =>
              (docs'[i].dirty /\ docs'[i].text = docs[i].text)
    /\ last_autosave' = now'

C20AfterSweep ==
    (last.swept /\ \A k \in 1..Len(io) : io[k].ok) =>
        \A i \in 1..Len(docs) : docs[i].path # None => ~docs[i].dirty

\* every sweep that runs writes every dirty document that has a path, so a
\* document whose write failed is written again by the next sweep
C20Retry ==
    (last'.op = "idle" /\ last'.swept) =>
        \A i \in 1..Len(docs) :
            (docs[i].dirty /\ docs[i].path # None) =>
                \E k \in 1..Len(io') :
                    /\ io'[k].doc = docs[i].id
                    /\ io'[k].target = docs[i].path[1]
                    /\ io'[k].content = docs[i].text

\* the document `id` is open, has a path and is dirty
dirty_titled(id) ==
    \E i \in 1..Len(docs) :
        docs[i].id = id /\ docs[i].path # None /\ docs[i].dirty

\* the document `id` is closed, or clean, or was edited in the last frame
settled(id) ==
    \/ \A i \in 1..Len(docs) : docs[i].id # id
    \/ \E i \in 1..Len(docs) : docs[i].id = id /\ ~docs[i].dirty
    \/ last.op = "set_text" /\ last.count = id

\* C20: with frames that keep coming while the clock runs and writes that
\* succeed again, every dirty document with a path is eventually clean,
\* edited again or closed; right after a sweep whose writes all succeeded no
\* document with a path is dirty; a sweep writes every dirty document with
\* a path, the ones whose last write failed included.
C20_AutosavePersists ==
    /\ []C20AfterSweep
    /\ [][C20Retry]_vars
    /\ \A id \in 1..MaxId : dirty_titled(id) ~> settled(id)

\* a sweep has just saved an edited document that has a path: the file
\* holds its text and it is clean
C20_Witness ==
    /\ last.op = "idle" /\ last.swept
    /\ \E i \in 1..Len(docs) :
          /\ docs[i].path # None /\ ~docs[i].dirty
          /\ docs[i].undo_stack # <<>>
          /\ fs[docs[i].path[1]] = Some(docs[i].text)
          /\ \E k \in 1..Len(io) : io[k].doc = docs[i].id /\ io[k].ok

====
